---- MODULE Spec2Model ----
(***************************************************************************)
(* Model of the decklist parser, app/core/parser.py (parse_decklist).      *)
(*                                                                         *)
(* A Python str is a sequence of characters; a character is a one-element  *)
(* TLA+ string, or a name for a character that has no plain spelling:      *)
(*   "LF" U+000A, "CR" U+000D, "TAB" U+0009,                               *)
(*   "RSQUO" U+2019, "LSQUO" U+2018 (typographic single quotes),           *)
(*   "ACUTE" U+0301 (combining acute accent), "eacute" U+00E9.             *)
(* Python's None is the value None below, which is no str of the model.    *)
(***************************************************************************)
EXTENDS Integers, Sequences, FiniteSets, TLC

VARIABLES decklist, lines, idx, parsed_cards, stdout, pc, result

vars == <<decklist, lines, idx, parsed_cards, stdout, pc, result>>

\* the request handler of app/main.py
VARIABLES db_connection, sort_order, only_paper, hpc, card_i, cards_table,
          all_printings, results_data, response, lookups

hvars == <<db_connection, sort_order, only_paper, hpc, card_i, cards_table,
           all_printings, results_data, response, lookups>>

\* invocations of parse_decklist that run at the same time
VARIABLES calls, lists

cvars == <<calls, lists>>

allvars == <<vars, hvars, cvars>>

None == <<"None">>

(***************************************************************************)
(* Character classes of Python's re module and of str.strip().             *)
(***************************************************************************)
Digits == {"0", "1", "2"}

Letters == {"a", "b", "c", "e", "p", "x", "y", "z",
            "A", "B", "C", "D", "E", "F", "eacute"}

\* \s and str.isspace()
Whitespace == {" ", "TAB", "LF", "CR"}

\* \w : alphanumerics and the underscore
WordChars == Digits \cup Letters \cup {"_"}

Puncts == {"(", ")", "/", "*", ":", "'", "RSQUO", "LSQUO", "ACUTE"}

Alphabet == WordChars \cup Whitespace \cup Puncts

\* "." of the patterns (no DOTALL flag)
Dot == Alphabet \ {"LF"}

\* the line boundaries of str.splitlines() that the model's alphabet holds
LineBreaks == {"LF", "CR"}

(***************************************************************************)
(* str methods.                                                            *)
(***************************************************************************)
Drop(s, n) == SubSeq(s, n + 1, Len(s))

Take(s, n) == SubSeq(s, 1, n)

StartsWith(s, prefix) ==
    /\ Len(s) >= Len(prefix)
    /\ Take(s, Len(prefix)) = prefix

\* str.replace(old, new): non-overlapping occurrences, left to right
RECURSIVE Replace(_, _, _)
Replace(s, old, new) ==
    IF Len(s) < Len(old) THEN s
    ELSE IF StartsWith(s, old)
         THEN new \o Replace(Drop(s, Len(old)), old, new)
         ELSE <<Head(s)>> \o Replace(Tail(s), old, new)

RECURSIVE LStrip(_)
LStrip(s) ==
    IF s # <<>> /\ Head(s) \in Whitespace THEN LStrip(Tail(s)) ELSE s

RECURSIVE RStrip(_)
RStrip(s) ==
    IF s # <<>> /\ s[Len(s)] \in Whitespace THEN RStrip(Take(s, Len(s) - 1)) ELSE s

\* str.strip()
Strip(s) == RStrip(LStrip(s))

\* the small letters and their capitals
CaseOf ==
    << <<"a", "A">>, <<"b", "B">>, <<"c", "C">>, <<"d", "D">>, <<"e", "E">>,
       <<"f", "F">>, <<"p", "P">>, <<"x", "X">>, <<"y", "Y">>, <<"z", "Z">>,
       <<"eacute", "Eacute">> >>

LowerChar(c) ==
    IF \E j \in 1..Len(CaseOf) : CaseOf[j][2] = c
    THEN CaseOf[CHOOSE j \in 1..Len(CaseOf) : CaseOf[j][2] = c][1]
    ELSE c

UpperChar(c) ==
    IF \E j \in 1..Len(CaseOf) : CaseOf[j][1] = c
    THEN CaseOf[CHOOSE j \in 1..Len(CaseOf) : CaseOf[j][1] = c][2]
    ELSE c

\* str.lower()
lower(s) == [j \in 1..Len(s) |-> LowerChar(s[j])]

\* index of the first line boundary of s, 0 when it has none
FirstBreak(s) ==
    LET at == {i \in 1..Len(s) : s[i] \in LineBreaks}
    IN  IF at = {} THEN 0 ELSE CHOOSE i \in at : \A j \in at : i <= j

\* str.splitlines(): "\r\n" is one boundary, a final boundary opens no line
RECURSIVE SplitLines(_)
SplitLines(s) ==
    IF s = <<>> THEN <<>>
    ELSE LET k == FirstBreak(s)
         IN  IF k = 0 THEN <<s>>
             ELSE LET w == IF s[k] = "CR" /\ k < Len(s) /\ s[k + 1] = "LF"
                           THEN 2 ELSE 1
                  IN  <<Take(s, k - 1)>> \o SplitLines(Drop(s, k - 1 + w))

\* length of the longest prefix of s made of characters of class
RECURSIVE Run(_, _)
Run(s, class) ==
    IF s # <<>> /\ Head(s) \in class THEN 1 + Run(Tail(s), class) ELSE 0

DigitValue(c) == CASE c = "0" -> 0 [] c = "1" -> 1 [] c = "2" -> 2

\* int(s): the value of a decimal digit string; ValueError on anything else
ValueError == -1

RECURSIVE IntDigits(_, _)
IntDigits(s, acc) ==
    IF s = <<>> THEN acc ELSE IntDigits(Tail(s), 10 * acc + DigitValue(Head(s)))

int(s) ==
    IF s = <<>> \/ \E i \in 1..Len(s) : s[i] \notin Digits
    THEN ValueError
    ELSE IntDigits(s, 0)

\* unicodedata.normalize('NFC', s): canonical composition
NFC(s) == Replace(s, <<"e", "ACUTE">>, <<"eacute">>)

(***************************************************************************)
(* The compiled patterns.  A match is a record with ok = TRUE and the      *)
(* groups; a failed match (Python's None) is NoMatch.                      *)
(***************************************************************************)
NoMatch == [ok |-> FALSE]

\* the set code written \w{3,6}: a code of six characters is taken too
SET_NUM_REGEX_match_at_wide(s, start) ==
    LET t  == Drop(s, start)
        k  == Run(Drop(t, 2), WordChars)
        ks == {n \in 3..6 : n <= k /\ Len(t) >= n + 3 /\ t[n + 3] = ")"}
    IN  IF Len(t) < 2 \/ t[1] \notin Whitespace \/ t[2] # "(" \/ ks = {}
        THEN NoMatch
        ELSE LET n  == CHOOSE x \in ks : \A y \in ks : y <= x
                 u  == Drop(t, n + 3)
                 w  == Run(u, Whitespace)
                 v  == Drop(u, w)
                 m  == Run(v, WordChars)
             IN  IF w < 1 \/ m < 1 THEN NoMatch
                 ELSE [ok |-> TRUE, start |-> start,
                       end |-> start + n + 3 + w + m,
                       group1 |-> SubSeq(t, 3, n + 2),
                       group2 |-> Take(v, m)]

\* SET_NUM_REGEX.match at the 0-based position start of s:
\*   \s \( (\w{3,5}) \) \s+ (p?\w+) \b
\* \w{3,5} is followed by "\)", which is no \w, so only the whole run of word
\* characters can stand for group 1; "p" is a \w, and \b holds just where a
\* run of word characters ends, so group 2 is the whole run after the blanks.
SET_NUM_REGEX_match_at(s, start) ==
    LET t  == Drop(s, start)
        k  == Run(Drop(t, 2), WordChars)
        ks == {n \in 3..5 : n <= k /\ Len(t) >= n + 3 /\ t[n + 3] = ")"}
    IN  IF Len(t) < 2 \/ t[1] \notin Whitespace \/ t[2] # "(" \/ ks = {}
        THEN NoMatch
        ELSE LET n  == CHOOSE x \in ks : \A y \in ks : y <= x
                 u  == Drop(t, n + 3)
                 w  == Run(u, Whitespace)
                 v  == Drop(u, w)
                 m  == Run(v, WordChars)
             IN  IF w < 1 \/ m < 1 THEN NoMatch
                 ELSE [ok |-> TRUE, start |-> start,
                       end |-> start + n + 3 + w + m,
                       group1 |-> SubSeq(t, 3, n + 2),
                       group2 |-> Take(v, m)]

\* the match at the rightmost position that has one, as a pattern anchored to
\* the end of the line would find
SET_NUM_REGEX_search_last(s) ==
    LET at == {i \in 0..(Len(s) - 1) : SET_NUM_REGEX_match_at(s, i).ok}
    IN  IF at = {} THEN NoMatch
        ELSE SET_NUM_REGEX_match_at(s, CHOOSE i \in at : \A j \in at : j <= i)

\* SET_NUM_REGEX.search(s): the match at the leftmost position that has one
SET_NUM_REGEX_search(s) ==
    LET at == {i \in 0..(Len(s) - 1) : SET_NUM_REGEX_match_at(s, i).ok}
    IN  IF at = {} THEN NoMatch
        ELSE SET_NUM_REGEX_match_at(s, CHOOSE i \in at : \A j \in at : i <= j)

\* QTY_NAME_REGEX.match(s), anchored at the start of s:  (\d+) \s+ (.+)
\* \d+ is greedy and what follows a run of digits is no digit, so group 1 is
\* the whole run.  \s+ is greedy and backtracks: it takes the most blanks that
\* leave (.+) a character to start with.  "." is any character but "\n".
QTY_NAME_REGEX_match(s) ==
    LET d  == Run(s, Digits)
        w  == Run(Drop(s, d), Whitespace)
        ws == {x \in 1..w : Run(Drop(s, d + x), Dot) >= 1}
    IN  IF d < 1 \/ ws = {} THEN NoMatch
        ELSE LET x    == CHOOSE a \in ws : \A b \in ws : b <= a
                 rest == Drop(s, d + x)
             IN  [ok |-> TRUE, group1 |-> Take(s, d),
                  group2 |-> Take(rest, Run(rest, Dot))]

(***************************************************************************)
(* One iteration of the loop of parse_decklist, on the line `line` as it   *)
(* stands after the pre-processing.                                        *)
(***************************************************************************)
\* line 42 left out: " / " stays as typed
PreProcess_separator_kept(raw) ==
    Replace(Replace(Strip(raw), <<"RSQUO">>, <<"'">>), <<"LSQUO">>, <<"'">>)

\* lines 38-42: strip, typographic quotes, the double-faced-card separator
PreProcess(raw) ==
    Replace(Replace(Replace(Strip(raw), <<"RSQUO">>, <<"'">>),
                    <<"LSQUO">>, <<"'">>),
            <<" ", "/", " ">>, <<" ", "/", "/", " ">>)

\* the test for comments left out
IsSkipped_blank_only(line) == line = <<>>

\* line 45: not line or line.startswith('//')
IsSkipped(line) == line = <<>> \/ StartsWith(line, <<"/", "/">>)

set_match(line) == SET_NUM_REGEX_search(line)

\* the code folded to capitals
set_code_upper(line) ==
    IF set_match(line).ok
    THEN [j \in 1..Len(set_match(line).group1) |->
              UpperChar(set_match(line).group1[j])]
    ELSE None

set_code(line) ==
    IF set_match(line).ok THEN set_match(line).group1 ELSE None

\* line 59 left out: the number stays None
collector_number_unset(line) == None

collector_number(line) ==
    IF set_match(line).ok THEN Strip(set_match(line).group2) ELSE None

name_part(line) ==
    IF set_match(line).ok THEN Strip(Take(line, set_match(line).start)) ELSE line

name_match(line) == QTY_NAME_REGEX_match(name_part(line))

quantity(line) == int(name_match(line).group1)

\* line 69 left out: the name keeps its combining sequences
card_name_not_composed(line) == Strip(name_match(line).group2)

card_name(line) == NFC(Strip(name_match(line).group2))

\* the tuple of line 70
ParsedCard(line) ==
    [quantity |-> quantity(line), card_name |-> card_name(line),
     set_code |-> set_code(line), collector_number |-> collector_number(line)]

\* the text of line 73
Unparsable(line) == <<"Skipping unparsable line: ">> \o line

(***************************************************************************)
(* The documents parse_decklist is called with: every text made of at most *)
(* MaxTokens fragments of decklist text.                                   *)
(***************************************************************************)
MaxTokens == 3

Tokens ==
    { <<"1">>, <<"0">>, <<" ">>, <<"a">>, <<"x">>,
      <<"1", " ", "a">>,
      <<"LF">>, <<"CR", "LF">>,
      <<"/", "/">>, <<" ", "/", " ">>,
      <<" ", "(", "A", "B", "C", ")", " ", "p", "2">>,
      <<" ", "(", "A", "B", "C", "D", "E", "F", ")", " ", "2">>,
      <<" ", "*", "F", "*">>,
      <<"e", "ACUTE">>, <<"RSQUO">>,
      <<" ", "/", " ", "/", " ">>,
      <<" ", "(", "a", "_", "B", ")", " ", "2">> }

RECURSIVE Texts(_)
Texts(n) ==
    IF n = 0 THEN {<<>>}
    ELSE LET shorter == Texts(n - 1)
         IN  shorter \cup {t \o k : t \in shorter, k \in Tokens}

Documents == Texts(MaxTokens)

(***************************************************************************)
(* parse_decklist as a state machine: pc is the position in the function,  *)
(* idx the number of lines the loop has taken, stdout what print() wrote,  *)
(* result the list returned (empty until pc = "done").                     *)
(***************************************************************************)
\* the state of the handler's variables while no request is served
HandlerAtRest ==
    /\ db_connection = None
    /\ sort_order = "price_down"
    /\ only_paper = None
    /\ hpc = "none"
    /\ card_i = 0
    /\ cards_table = <<>>
    /\ all_printings = <<>>
    /\ results_data = <<>>
    /\ response = 0
    /\ lookups = 0

\* the state of the invocations' variables while none runs
CallsAtRest ==
    /\ calls = <<>>
    /\ lists = <<>>

Init ==
    /\ decklist \in Documents
    /\ lines = <<>>
    /\ idx = 0
    /\ parsed_cards = <<>>
    /\ stdout = <<>>
    /\ pc = "start"
    /\ result = <<>>
    /\ HandlerAtRest
    /\ CallsAtRest

\* lines 31-36: the list of lines the loop runs over
SplitDocument ==
    /\ pc = "start"
    /\ lines' = SplitLines(Strip(Replace(decklist, <<"CR", "LF">>, <<"LF">>)))
    /\ pc' = "loop"
    /\ UNCHANGED <<hvars, cvars>>
    /\ UNCHANGED <<decklist, idx, parsed_cards, stdout, result>>

\* break in the place of continue
SkipLine_breaking ==
    /\ pc = "loop"
    /\ idx < Len(lines)
    /\ IsSkipped(PreProcess(lines[idx + 1]))
    /\ idx' = Len(lines)
    /\ UNCHANGED <<hvars, cvars>>
    /\ UNCHANGED <<decklist, lines, parsed_cards, stdout, pc, result>>

\* lines 45-46: continue
SkipLine ==
    /\ pc = "loop"
    /\ idx < Len(lines)
    /\ IsSkipped(PreProcess(lines[idx + 1]))
    /\ idx' = idx + 1
    /\ UNCHANGED <<hvars, cvars>>
    /\ UNCHANGED <<decklist, lines, parsed_cards, stdout, pc, result>>

\* a card already in the list has its quantity raised instead of a new entry
AppendCard_merging ==
    /\ pc = "loop"
    /\ idx < Len(lines)
    /\ LET line == PreProcess(lines[idx + 1])
           same == {i \in 1..Len(parsed_cards) :
                       parsed_cards[i].card_name = card_name(line)}
       IN  /\ ~IsSkipped(line)
           /\ name_match(line).ok
           /\ parsed_cards' =
                 IF same = {} THEN Append(parsed_cards, ParsedCard(line))
                 ELSE [i \in 1..Len(parsed_cards) |->
                         IF i \in same
                         THEN [parsed_cards[i] EXCEPT
                                 !.quantity = @ + quantity(line)]
                         ELSE parsed_cards[i]]
    /\ idx' = idx + 1
    /\ UNCHANGED <<hvars, cvars>>
    /\ UNCHANGED <<decklist, lines, stdout, pc, result>>

\* lines 64-70: the line has a quantity and a name; int() may raise
AppendCard ==
    /\ pc = "loop"
    /\ idx < Len(lines)
    /\ LET line == PreProcess(lines[idx + 1])
       IN  /\ ~IsSkipped(line)
           /\ name_match(line).ok
           /\ IF quantity(line) = ValueError
              THEN /\ pc' = "raised"
                   /\ UNCHANGED <<idx, parsed_cards>>
              ELSE /\ parsed_cards' = Append(parsed_cards, ParsedCard(line))
                   /\ idx' = idx + 1
                   /\ pc' = pc
    /\ UNCHANGED <<hvars, cvars>>
    /\ UNCHANGED <<decklist, lines, stdout, result>>

\* a line without a quantity is taken as one copy of the card it names
PrintUnparsable_defaulting ==
    /\ pc = "loop"
    /\ idx < Len(lines)
    /\ LET line == PreProcess(lines[idx + 1])
       IN  /\ ~IsSkipped(line)
           /\ ~name_match(line).ok
           /\ parsed_cards' =
                 Append(parsed_cards,
                        [quantity |-> 1, card_name |-> NFC(name_part(line)),
                         set_code |-> set_code(line),
                         collector_number |-> collector_number(line)])
    /\ idx' = idx + 1
    /\ UNCHANGED <<hvars, cvars>>
    /\ UNCHANGED <<decklist, lines, stdout, pc, result>>

\* an unrecognised line raises instead of being reported
PrintUnparsable_raising ==
    /\ pc = "loop"
    /\ idx < Len(lines)
    /\ LET line == PreProcess(lines[idx + 1])
       IN  /\ ~IsSkipped(line)
           /\ ~name_match(line).ok
    /\ pc' = "raised"
    /\ UNCHANGED <<hvars, cvars>>
    /\ UNCHANGED <<decklist, lines, idx, parsed_cards, stdout, result>>

\* lines 71-73: the line is reported and dropped
PrintUnparsable ==
    /\ pc = "loop"
    /\ idx < Len(lines)
    /\ LET line == PreProcess(lines[idx + 1])
       IN  /\ ~IsSkipped(line)
           /\ ~name_match(line).ok
           /\ stdout' = Append(stdout, Unparsable(line))
    /\ idx' = idx + 1
    /\ UNCHANGED <<hvars, cvars>>
    /\ UNCHANGED <<decklist, lines, parsed_cards, pc, result>>

\* line 75
Return ==
    /\ pc = "loop"
    /\ idx = Len(lines)
    /\ result' = parsed_cards
    /\ pc' = "done"
    /\ UNCHANGED <<hvars, cvars>>
    /\ UNCHANGED <<decklist, lines, idx, parsed_cards, stdout>>

Next ==
    \/ SplitDocument
    \/ SkipLine
    \/ AppendCard
    \/ PrintUnparsable
    \/ Return

Spec == Init /\ [][Next]_allvars

(***************************************************************************)
(* parse_decklist as a function of the document, lines 17-75.              *)
(***************************************************************************)
RECURSIVE EntriesOf(_)
EntriesOf(ls) ==
    IF ls = <<>> THEN <<>>
    ELSE LET line == PreProcess(Head(ls))
         IN  (IF ~IsSkipped(line) /\ name_match(line).ok
              THEN <<ParsedCard(line)>> ELSE <<>>) \o EntriesOf(Tail(ls))

parse_decklist(text) ==
    EntriesOf(SplitLines(Strip(Replace(text, <<"CR", "LF">>, <<"LF">>))))

(***************************************************************************)
(* Card records, app/services/card_service.py and scripts/build_db.py.     *)
(*                                                                         *)
(* A record (a Python dict) is a TLA+ record; a text value is a str of the *)
(* model or None; a nullable number (a REAL column, a float or None) is a  *)
(* sequence of at most one number, Null standing for NULL and None.        *)
(***************************************************************************)
Null == <<>>

\* dict.get(key, default)
get(p, key, default) == IF key \in DOMAIN p THEN p[key] ELSE default

\* the card every sample line names
CardName == <<"a">>

\* set code and collector number of a printing, as Scryfall spells them
Identities ==
    { [set_code |-> <<"a", "b", "c">>, collector_number |-> <<"p", "2">>],
      [set_code |-> <<"a", "b", "c">>, collector_number |-> <<"2">>],
      [set_code |-> <<"x", "y", "z">>, collector_number |-> <<"p", "2">>] }

\* price_usd and price_foil of a printing
Prices ==
    { [price_usd |-> Null, price_foil |-> Null],
      [price_usd |-> <<1>>, price_foil |-> Null],
      [price_usd |-> <<2>>, price_foil |-> Null],
      [price_usd |-> <<1>>, price_foil |-> <<3>>] }

\* the id of the j-th printing
Ids == << <<"i", "d", "1">>, <<"i", "d", "2">>, <<"i", "d", "3">>,
          <<"i", "d", "4">> >>

MaxPrintings == 2

\* build_db.py lines 31-43: a row of the table cards, with the columns the
\* request handler reads
Row(j, identity, price) ==
    [id |-> Ids[j], name |-> CardName, real_name |-> CardName,
     set_code |-> identity.set_code,
     collector_number |-> identity.collector_number,
     price_usd |-> price.price_usd, price_foil |-> price.price_foil]

\* the contents of the table cards, in rowid order
CardsTables ==
    UNION { { [j \in 1..n |-> Row(j, f[j][1], f[j][2])] :
                f \in [1..n -> Identities \X Prices] } : n \in 0..MaxPrintings }

\* sorted(xs, key=..., reverse=...), keys[j] being the key of xs[j]: the
\* sort is stable
RECURSIVE sorted(_, _, _)
sorted(xs, keys, reverse) ==
    IF xs = <<>> THEN <<>>
    ELSE LET before(a, b) == IF reverse THEN a > b ELSE a < b
             j == CHOOSE j \in 1..Len(xs) :
                     /\ \A k \in 1..Len(xs) : ~before(keys[k], keys[j])
                     /\ \A k \in 1..(j - 1) : before(keys[j], keys[k])
             rest(s) == [k \in 1..(Len(s) - 1) |->
                            IF k < j THEN s[k] ELSE s[k + 1]]
         IN  <<xs[j]>> \o sorted(rest(xs), rest(keys), reverse)

\* card_service.py lines 68-76: the canonical name of a card
canonical_name(table, given_name) ==
    LET hits == {j \in 1..Len(table) : table[j].name = given_name}
    IN  IF hits # {} /\ table[CHOOSE j \in hits : TRUE].real_name # None
        THEN table[CHOOSE j \in hits : TRUE].real_name
        ELSE given_name

\* the place of a price in ORDER BY price_usd ASC: NULL comes first
SqlOrder(price) == IF price = Null THEN -1 ELSE price[1]

\* card_service.py lines 79-83:
\* SELECT * FROM cards WHERE real_name = ? ORDER BY price_usd ASC
SelectByRealName(table, given_name) ==
    LET IsPrinting(row) == row.real_name = canonical_name(table, given_name)
        rows == SelectSeq(table, IsPrinting)
    IN  sorted(rows, [j \in 1..Len(rows) |-> SqlOrder(rows[j].price_usd)], FALSE)

\* a card object of the Scryfall API: prices are decimal texts or None
ScryfallCards ==
    { [id |-> Ids[1], set |-> <<"a", "b", "c">>,
       collector_number |-> <<"p", "2">>,
       prices |-> [usd |-> usd, usd_foil |-> None], image_uris |-> image] :
        usd \in {None, <<"2", ".", "0", "0">>}, image \in BOOLEAN }

\* what the search answers: no card (or an error), or one card
ApiResponses == {<<>>} \cup {<<card>> : card \in ScryfallCards}

\* float() of a decimal text of the API
float(text) == int(Take(text, Run(text, Digits)))

\* card_service.py lines 109-124: the records built from the API's cards
RECURSIVE Normalized(_)
Normalized(cards) ==
    IF cards = <<>> THEN <<>>
    ELSE LET card == Head(cards)
             price(text) == IF text # None /\ text # <<>>
                            THEN <<float(text)>> ELSE Null
         IN  (IF card.image_uris
              THEN << [id |-> card.id, name |-> CardName,
                       set_code |-> card.set,
                       collector_number |-> card.collector_number,
                       price_usd |-> price(card.prices.usd),
                       price_foil |-> price(card.prices.usd_foil)] >>
              ELSE <<>>) \o Normalized(Tail(cards))

(***************************************************************************)
(* Sorting and filtering of printings, app/main.py lines 110-156.          *)
(***************************************************************************)
\* main.py line 119: the sentinel of a printing without a price
NoPrice == -1

\* main.py lines 110-119
price_value(card) ==
    LET foil_price == get(card, "price_foil", Null)
        usd_price  == get(card, "price_usd", Null)
    IN  IF foil_price # Null THEN foil_price[1]
        ELSE IF usd_price # Null THEN usd_price[1]
        ELSE NoPrice

\* the dates of the model and their days since 0001-01-01
IsoDates ==
    { [text |-> <<"2020-01-01">>, ordinal |-> 737425],
      [text |-> <<"2021-06-15">>, ordinal |-> 737956] }

\* datetime.fromisoformat
fromisoformat(text) ==
    IF \E d \in IsoDates : d.text = text
    THEN (CHOOSE d \in IsoDates : d.text = text).ordinal
    ELSE ValueError

\* datetime.min
datetime_min == 1

\* main.py lines 122-131
release_date_value(card) ==
    LET date_str == get(card, "released_at", None)
    IN  IF date_str # None /\ fromisoformat(date_str) # ValueError
        THEN fromisoformat(date_str)
        ELSE datetime_min

\* the truth of p.get("is_paper")
IsPaper(p) ==
    get(p, "is_paper", Null) # Null /\ get(p, "is_paper", Null)[1] # 0

\* an unrecognised sort_order sorts by price, cheapest first
sort_printings_default_up(printings, order, paper_only_flag) ==
    LET kept == IF paper_only_flag THEN SelectSeq(printings, IsPaper)
                ELSE printings
        prices == [j \in 1..Len(kept) |-> price_value(kept[j])]
        dates == [j \in 1..Len(kept) |-> release_date_value(kept[j])]
    IN  IF order = "price_up" THEN sorted(kept, prices, FALSE)
        ELSE IF order = "release_down" THEN sorted(kept, dates, TRUE)
        ELSE IF order = "release_up" THEN sorted(kept, dates, FALSE)
        ELSE IF order = "price_down" THEN sorted(kept, prices, TRUE)
        ELSE sorted(kept, prices, FALSE)

\* main.py lines 134-156
sort_printings(printings, order, paper_only_flag) ==
    LET kept == IF paper_only_flag THEN SelectSeq(printings, IsPaper)
                ELSE printings
        prices == [j \in 1..Len(kept) |-> price_value(kept[j])]
        dates == [j \in 1..Len(kept) |-> release_date_value(kept[j])]
    IN  IF order = "price_up" THEN sorted(kept, prices, FALSE)
        ELSE IF order = "release_down" THEN sorted(kept, dates, TRUE)
        ELSE IF order = "release_up" THEN sorted(kept, dates, FALSE)
        ELSE sorted(kept, prices, TRUE)

\* the values of the form field sort_order: the four of the page and another
SortOrders == {"price_down", "price_up", "release_down", "release_up", "newest"}

\* the values of the form field only_paper: absent, or the checkbox's "on"
OnlyPaperValues == {None, <<"o", "n">>}

(***************************************************************************)
(* The request handler analyze_decklist, app/main.py lines 168-298.        *)
(* hpc is the position in the handler, card_i the number of entries the    *)
(* loop has taken, lookups the number of calls of                          *)
(* find_card_printings_by_name, response the status code answered.         *)
(***************************************************************************)
\* the lines of the sample requests
SampleLines ==
    { <<"x">>,
      <<"1", " ", "a">>,
      <<"1", " ", "a", " ", "(", "A", "B", "C", ")", " ", "p", "2">> }

CommentLine == <<"/", "/", " ", "c">>

\* sample documents: one line, or two lines of which the first is a comment
\* or the second a card
SampleDocuments ==
    SampleLines
        \cup {CommentLine \o <<"LF">> \o a : a \in SampleLines}
        \cup {a \o <<"LF", "1", " ", "a">> : a \in SampleLines}

\* the documents of the requests: the empty text and the samples
RequestDocuments == {<<>>} \cup SampleDocuments

\* the matching of lines 266-272 stops at the last printing that matches
original_card_id_of_last(printings, set, coll_num) ==
    LET matches == {j \in 1..Len(printings) :
                       /\ lower(get(printings[j], "set_code", <<>>))
                             = lower(set)
                       /\ get(printings[j], "collector_number", None)
                             = coll_num}
        last == CHOOSE j \in matches : \A k \in matches : k <= j
        found == IF set \notin {None, <<>>} /\ coll_num \notin {None, <<>>}
                    /\ matches # {}
                 THEN get(printings[last], "id", None)
                 ELSE None
    IN  IF found \in {None, <<>>}
        THEN IF printings # <<>> THEN get(printings[1], "id", None) ELSE None
        ELSE found

\* main.py lines 265-276: the id of the reference printing
original_card_id_of(printings, set, coll_num) ==
    LET matches == {j \in 1..Len(printings) :
                       /\ lower(get(printings[j], "set_code", <<>>))
                             = lower(set)
                       /\ get(printings[j], "collector_number", None)
                             = coll_num}
        first == CHOOSE j \in matches : \A k \in matches : j <= k
        found == IF set \notin {None, <<>>} /\ coll_num \notin {None, <<>>}
                    /\ matches # {}
                 THEN get(printings[first], "id", None)
                 ELSE None
    IN  IF found \in {None, <<>>}
        THEN IF printings # <<>> THEN get(printings[1], "id", None) ELSE None
        ELSE found

\* the state of the parser's variables before parse_decklist is called
ParserAtRest ==
    /\ lines = <<>>
    /\ idx = 0
    /\ parsed_cards = <<>>
    /\ stdout = <<>>
    /\ pc = "idle"
    /\ result = <<>>

InitAnalyze ==
    /\ decklist \in RequestDocuments
    /\ ParserAtRest
    /\ \/ db_connection = None /\ cards_table = <<>>
       \/ db_connection = <<"conn">> /\ cards_table \in CardsTables
    /\ sort_order \in SortOrders
    /\ only_paper \in OnlyPaperValues
    /\ hpc = "received"
    /\ card_i = 0
    /\ all_printings = <<>>
    /\ results_data = <<>>
    /\ response = 0
    /\ lookups = 0
    /\ CallsAtRest

\* lines 181-182: no database connection
Unavailable ==
    /\ hpc = "received"
    /\ db_connection = None
    /\ response' = 503
    /\ hpc' = "responded"
    /\ UNCHANGED <<vars, cvars, db_connection, sort_order, only_paper, card_i,
                   cards_table, all_printings, results_data, lookups>>

\* line 185: parse_decklist is called
CallParser ==
    /\ hpc = "received"
    /\ db_connection # None
    /\ pc' = "start"
    /\ hpc' = "parsing"
    /\ UNCHANGED <<decklist, lines, idx, parsed_cards, stdout, result>>
    /\ UNCHANGED <<cvars, db_connection, sort_order, only_paper, card_i,
                   cards_table, all_printings, results_data, response, lookups>>

\* an empty list of cards is rendered like any other
RejectEmpty_rendering ==
    /\ hpc = "parsing"
    /\ pc = "done"
    /\ result = <<>>
    /\ response' = 200
    /\ hpc' = "responded"
    /\ UNCHANGED <<vars, cvars, db_connection, sort_order, only_paper, card_i,
                   cards_table, all_printings, results_data, lookups>>

\* lines 186-193: no card parsed
RejectEmpty ==
    /\ hpc = "parsing"
    /\ pc = "done"
    /\ result = <<>>
    /\ response' = 400
    /\ hpc' = "responded"
    /\ UNCHANGED <<vars, cvars, db_connection, sort_order, only_paper, card_i,
                   cards_table, all_printings, results_data, lookups>>

\* lines 196-206: the loop over the parsed cards begins
StartLookups ==
    /\ hpc = "parsing"
    /\ pc = "done"
    /\ result # <<>>
    /\ results_data' = <<>>
    /\ card_i' = 0
    /\ hpc' = "loop"
    /\ UNCHANGED <<vars, cvars, db_connection, sort_order, only_paper,
                   cards_table, all_printings, response, lookups>>

\* line 210, card_service.py lines 66-87: the printings are in the database
FindInDatabase ==
    /\ hpc = "loop"
    /\ card_i < Len(result)
    /\ LET rows == SelectByRealName(cards_table, result[card_i + 1].card_name)
       IN  /\ rows # <<>>
           /\ all_printings' = rows
    /\ lookups' = lookups + 1
    /\ hpc' = "found"
    /\ UNCHANGED <<vars, cvars, db_connection, sort_order, only_paper, card_i,
                   cards_table, results_data, response>>

\* line 210, card_service.py lines 89-138: the API is asked instead
FallbackToApi ==
    /\ hpc = "loop"
    /\ card_i < Len(result)
    /\ SelectByRealName(cards_table, result[card_i + 1].card_name) = <<>>
    /\ \E cards \in ApiResponses : all_printings' = Normalized(cards)
    /\ lookups' = lookups + 1
    /\ hpc' = "found"
    /\ UNCHANGED <<vars, cvars, db_connection, sort_order, only_paper, card_i,
                   cards_table, results_data, response>>

\* lines 252-260: the placeholder of a card without printings
ReportMissing ==
    /\ hpc = "found"
    /\ all_printings = <<>>
    /\ results_data' =
          Append(results_data,
                 [original_card_id |-> None, printings |-> <<>>,
                  error |-> <<"Could not find any printings">>])
    /\ card_i' = card_i + 1
    /\ hpc' = "loop"
    /\ UNCHANGED <<vars, cvars, db_connection, sort_order, only_paper,
                   cards_table, all_printings, response, lookups>>

\* line 263: the printings are filtered and sorted
SortPrintings ==
    /\ hpc = "found"
    /\ all_printings # <<>>
    /\ all_printings' =
          sort_printings(all_printings, sort_order, only_paper # None)
    /\ hpc' = "sorted"
    /\ UNCHANGED <<vars, cvars, db_connection, sort_order, only_paper, card_i,
                   cards_table, results_data, response, lookups>>

\* lines 265-283: the reference printing is chosen, the result recorded
IdentifyPrinting ==
    /\ hpc = "sorted"
    /\ results_data' =
          Append(results_data,
                 [original_card_id |->
                      original_card_id_of(all_printings,
                                          result[card_i + 1].set_code,
                                          result[card_i + 1].collector_number),
                  printings |-> all_printings,
                  error |-> None])
    /\ card_i' = card_i + 1
    /\ hpc' = "loop"
    /\ UNCHANGED <<vars, cvars, db_connection, sort_order, only_paper,
                   cards_table, all_printings, response, lookups>>

\* lines 285-298: the results are rendered
Render ==
    /\ hpc = "loop"
    /\ card_i = Len(result)
    /\ response' = 200
    /\ hpc' = "responded"
    /\ UNCHANGED <<vars, cvars, db_connection, sort_order, only_paper, card_i,
                   cards_table, all_printings, results_data, lookups>>

NextAnalyze ==
    \/ Unavailable
    \/ CallParser
    \/ SplitDocument
    \/ SkipLine
    \/ AppendCard
    \/ PrintUnparsable
    \/ Return
    \/ RejectEmpty
    \/ StartLookups
    \/ FindInDatabase
    \/ FallbackToApi
    \/ ReportMissing
    \/ SortPrintings
    \/ IdentifyPrinting
    \/ Render

SpecAnalyze == InitAnalyze /\ [][NextAnalyze]_allvars

(***************************************************************************)
(* sort_printings called on its own, with any list of card records: a      *)
(* record may carry is_paper and released_at.                              *)
(***************************************************************************)
\* is_paper and released_at of a record: absent, or a flag and a date text
Attributes ==
    { [e \in {} |-> e],
      [is_paper |-> <<1>>, released_at |-> <<"2020-01-01">>],
      [is_paper |-> <<1>>, released_at |-> <<"2021-06-15">>],
      [is_paper |-> <<0>>, released_at |-> <<"2021-06-15">>],
      [is_paper |-> <<1>>, released_at |-> <<"soon">>] }

\* the record of price p and attributes a
CardData(j, price, a) ==
    [k \in {"id", "price_usd", "price_foil"} \cup DOMAIN a |->
        IF k = "id" THEN Ids[j]
        ELSE IF k \in DOMAIN a THEN a[k]
        ELSE price[k]]

CardLists ==
    UNION { { [j \in 1..n |-> CardData(j, f[j][1], f[j][2])] :
                f \in [1..n -> Prices \X Attributes] } : n \in 0..MaxPrintings }

InitSort ==
    /\ decklist = <<>>
    /\ ParserAtRest
    /\ CallsAtRest
    /\ db_connection = None
    /\ cards_table = <<>>
    /\ sort_order \in SortOrders
    /\ only_paper \in OnlyPaperValues
    /\ hpc = "call"
    /\ card_i = 0
    /\ all_printings \in CardLists
    /\ results_data = <<>>
    /\ response = 0
    /\ lookups = 0

\* main.py lines 134-156: the call returns the list
CallSortPrintings ==
    /\ hpc = "call"
    /\ all_printings' =
          sort_printings(all_printings, sort_order, only_paper # None)
    /\ hpc' = "returned"
    /\ UNCHANGED <<vars, cvars, db_connection, sort_order, only_paper, card_i,
                   cards_table, results_data, response, lookups>>

NextSort == CallSortPrintings

SpecSort == InitSort /\ [][NextSort]_allvars

(***************************************************************************)
(* Invocations of parse_decklist that run at the same time.  Each has its  *)
(* own locals in calls[c]; lists holds the list objects, calls[c].cards    *)
(* naming the one that invocation c appends to; the patterns of lines      *)
(* 10-14 are shared and never written; stdout is the one of the process.   *)
(***************************************************************************)
MaxCalls == 2

Invocations == 1..MaxCalls

\* one list for all invocations
NewList_shared(c) == 1

\* line 31: parsed_cards = [] makes a list of the invocation's own
NewList(c) == c

InitConcurrent ==
    /\ decklist = <<>>
    /\ lines = <<>>
    /\ idx = 0
    /\ parsed_cards = <<>>
    /\ stdout = <<>>
    /\ pc = "idle"
    /\ result = <<>>
    /\ HandlerAtRest
    /\ calls \in [Invocations ->
                    { [decklist |-> d, lines |-> <<>>, idx |-> 0, cards |-> 0,
                       pc |-> "start", result |-> <<>>] :
                      d \in SampleDocuments }]
    /\ lists = [c \in Invocations |-> <<>>]

\* lines 31-36
CallSplitDocument(c) ==
    /\ calls[c].pc = "start"
    /\ calls' = [calls EXCEPT
                   ![c].lines = SplitLines(Strip(Replace(calls[c].decklist,
                                   <<"CR", "LF">>, <<"LF">>))),
                   ![c].cards = NewList(c),
                   ![c].pc = "loop"]
    /\ lists' = [lists EXCEPT ![NewList(c)] = <<>>]
    /\ UNCHANGED <<vars, hvars>>

\* lines 45-46
CallSkipLine(c) ==
    /\ calls[c].pc = "loop"
    /\ calls[c].idx < Len(calls[c].lines)
    /\ IsSkipped(PreProcess(calls[c].lines[calls[c].idx + 1]))
    /\ calls' = [calls EXCEPT ![c].idx = @ + 1]
    /\ UNCHANGED <<vars, hvars, lists>>

\* lines 64-70
CallAppendCard(c) ==
    /\ calls[c].pc = "loop"
    /\ calls[c].idx < Len(calls[c].lines)
    /\ LET line == PreProcess(calls[c].lines[calls[c].idx + 1])
       IN  /\ ~IsSkipped(line)
           /\ name_match(line).ok
           /\ IF quantity(line) = ValueError
              THEN /\ calls' = [calls EXCEPT ![c].pc = "raised"]
                   /\ UNCHANGED lists
              ELSE /\ lists' = [lists EXCEPT
                                  ![calls[c].cards] = Append(@, ParsedCard(line))]
                   /\ calls' = [calls EXCEPT ![c].idx = @ + 1]
    /\ UNCHANGED <<vars, hvars>>

\* lines 71-73
CallPrintUnparsable(c) ==
    /\ calls[c].pc = "loop"
    /\ calls[c].idx < Len(calls[c].lines)
    /\ LET line == PreProcess(calls[c].lines[calls[c].idx + 1])
       IN  /\ ~IsSkipped(line)
           /\ ~name_match(line).ok
           /\ stdout' = Append(stdout, Unparsable(line))
    /\ calls' = [calls EXCEPT ![c].idx = @ + 1]
    /\ UNCHANGED <<decklist, lines, idx, parsed_cards, pc, result, hvars, lists>>

\* line 75
CallReturn(c) ==
    /\ calls[c].pc = "loop"
    /\ calls[c].idx = Len(calls[c].lines)
    /\ calls' = [calls EXCEPT ![c].result = lists[calls[c].cards],
                              ![c].pc = "done"]
    /\ UNCHANGED <<vars, hvars, lists>>

NextConcurrent ==
    \E c \in Invocations :
        \/ CallSplitDocument(c)
        \/ CallSkipLine(c)
        \/ CallAppendCard(c)
        \/ CallPrintUnparsable(c)
        \/ CallReturn(c)

SpecConcurrent == InitConcurrent /\ [][NextConcurrent]_allvars

(***************************************************************************)
(* Properties.                                                             *)
(***************************************************************************)
\* the loop takes the next line in this step
LineStep == idx' = idx + 1

\* a line with a quantity and a name, judged on the pre-processed line
Accepts(line) == ~IsSkipped(line) /\ name_match(line).ok

\* the indices of the accepted lines among the first n, in increasing order
RECURSIVE AcceptedUpTo(_)
AcceptedUpTo(n) ==
    IF n = 0 THEN <<>>
    ELSE IF Accepts(PreProcess(lines[n]))
         THEN Append(AcceptedUpTo(n - 1), n)
         ELSE AcceptedUpTo(n - 1)

\* C1: every entry of the list parse_decklist builds has quantity >= 1.
C1_QuantityAtLeastOne ==
    \A i \in 1..Len(parsed_cards) : parsed_cards[i].quantity >= 1

\* C2: every entry has set_code and collector_number both present (not None,
\* not empty) or both None.
C2_SetAndNumberPaired ==
    \A i \in 1..Len(parsed_cards) :
        LET e == parsed_cards[i]
        IN  \/ e.set_code = None /\ e.collector_number = None
            \/ /\ e.set_code # None /\ e.set_code # <<>>
               /\ e.collector_number # None /\ e.collector_number # <<>>

C2_Witness ==
    /\ pc = "done"
    /\ \E i \in 1..Len(result) : result[i].set_code = <<"A", "B", "C">>

C4_NoFailure ==
    /\ pc # "raised"
    /\ pc = "loop" => idx <= Len(lines)
    /\ pc = "done" =>
          /\ idx = Len(lines)
          /\ Len(result) = Len(AcceptedUpTo(Len(lines)))
          /\ \A j \in 1..Len(lines) :
                 Accepts(PreProcess(lines[j])) =>
                     \E k \in 1..Len(result) :
                         result[k] = ParsedCard(PreProcess(lines[j]))

C4_Witness ==
    /\ pc = "done"
    /\ \E j, k \in 1..Len(lines) :
          /\ j < k
          /\ PreProcess(lines[j]) = <<"x">>
          /\ Accepts(PreProcess(lines[k]))
    /\ stdout # <<>>
    /\ result # <<>>

(***************************************************************************)
(* The set/number annotation, stated on the text itself: a blank, "(",     *)
(* 3 to 5 word characters, ")", one or more blanks and a run of word       *)
(* characters that ends where the text ends or a non-word character        *)
(* follows.  Positions are 0-based, as those of Python.                    *)
(***************************************************************************)
AnnotationsAt(s, i) ==
    IF i + 2 > Len(s) \/ s[i + 1] \notin Whitespace \/ s[i + 2] # "("
    THEN {}
    ELSE LET fits(k, w, m) ==
                 /\ i + 3 + k + w + m <= Len(s)
                 /\ \A j \in 1..k : s[i + 2 + j] \in WordChars
                 /\ s[i + 3 + k] = ")"
                 /\ \A j \in 1..w : s[i + 3 + k + j] \in Whitespace
                 /\ \A j \in 1..m : s[i + 3 + k + w + j] \in WordChars
                 /\ \/ i + 3 + k + w + m = Len(s)
                    \/ s[i + 4 + k + w + m] \notin WordChars
         IN  {[set |-> SubSeq(s, i + 3, i + 2 + t[1]),
               number |-> SubSeq(s, i + 4 + t[1] + t[2], i + 3 + t[1] + t[2] + t[3]),
               end |-> i + 3 + t[1] + t[2] + t[3]] :
                 t \in {u \in (3..5) \X (1..Len(s)) \X (1..Len(s)) :
                           fits(u[1], u[2], u[3])}}

Occurrences(s) == {i \in 0..(Len(s) - 1) : AnnotationsAt(s, i) # {}}

Leftmost(s) == CHOOSE i \in Occurrences(s) : \A j \in Occurrences(s) : i <= j

LeftmostAnnotation(s) == CHOOSE a \in AnnotationsAt(s, Leftmost(s)) : TRUE

\* text that holds a character other than blanks
NonBlank(s) == Strip(s) # <<>>

\* s begins with a run of digits, a blank and a name
HasQuantityAndName(s) ==
    LET d == Run(s, Digits)
    IN  d >= 1 /\ d < Len(s) /\ s[d + 1] \in Whitespace /\ NonBlank(Drop(s, d))

\* the line l is  N " " name " (" SET ") " NUM  with N of d digits, SET of k
\* and NUM of m word characters, and a name that is not blank
IsAnnotatedForm(l, d, k, m) ==
    LET n == Len(l) - d - k - m - 5
    IN  /\ n >= 1
        /\ \A j \in 1..d : l[j] \in Digits
        /\ l[d + 1] = " "
        /\ NonBlank(SubSeq(l, d + 2, d + 1 + n))
        /\ SubSeq(l, d + n + 2, d + n + 3) = <<" ", "(">>
        /\ \A j \in 1..k : l[d + n + 3 + j] \in WordChars
        /\ SubSeq(l, d + n + k + 4, d + n + k + 5) = <<")", " ">>
        /\ \A j \in 1..m : l[d + n + k + 5 + j] \in WordChars

FormName(l, d, k, m) == SubSeq(l, d + 2, Len(l) - k - m - 4)

FormSet(l, d, k, m) == SubSeq(l, Len(l) - k - m - 1, Len(l) - m - 2)

FormNumber(l, d, k, m) == SubSeq(l, Len(l) - m + 1, Len(l))

Forms(l) ==
    {t \in (1..Len(l)) \X (3..5) \X (1..Len(l)) : IsAnnotatedForm(l, t[1], t[2], t[3])}

\* C5 as claimed: a line  N name (SET) NUM  yields one entry with the value of
\* N, SET, NUM and, as card_name, exactly the name (as it stands once the line
\* is pre-processed), trimmed.
C5_AnnotatedLine_AsClaimed ==
    [][LineStep =>
         \A t \in Forms(lines[idx + 1]) :
             LET l    == lines[idx + 1]
                 line == PreProcess(l)
                 tail == t[2] + t[3] + 4
             IN  parsed_cards' =
                   Append(parsed_cards,
                          [quantity |-> int(Take(l, t[1])),
                           card_name |->
                              Strip(SubSeq(line, t[1] + 1, Len(line) - tail)),
                           set_code |-> FormSet(l, t[1], t[2], t[3]),
                           collector_number |-> FormNumber(l, t[1], t[2], t[3])])]_vars

\* C5, amended: a line  N name (SET) NUM  in which the set/number pattern does
\* not occur before " (SET) NUM" yields one entry with the value of N, SET,
\* NUM and, as card_name, the NFC composition of the name (as it stands once
\* the line is pre-processed), trimmed.
C5_AnnotatedLine ==
    [][LineStep =>
         \A t \in Forms(lines[idx + 1]) :
             LET l    == lines[idx + 1]
                 line == PreProcess(l)
                 tail == t[2] + t[3] + 4
             IN  Occurrences(l) \cap (0..(Len(l) - tail - 1)) = {} =>
                   parsed_cards' =
                     Append(parsed_cards,
                            [quantity |-> int(Take(l, t[1])),
                             card_name |->
                                NFC(Strip(SubSeq(line, t[1] + 1, Len(line) - tail))),
                             set_code |-> FormSet(l, t[1], t[2], t[3]),
                             collector_number |-> FormNumber(l, t[1], t[2], t[3])])]_vars

\* an annotated line whose name holds a combining sequence, composed in the entry
C5_Witness ==
    /\ pc = "loop"
    /\ idx = 1
    /\ Forms(lines[1]) # {}
    /\ Occurrences(lines[1]) = {Leftmost(lines[1])}
    /\ Len(parsed_cards) = 1
    /\ parsed_cards[1].card_name # Strip(Drop(Take(lines[1], Leftmost(lines[1])), 1))

\* C6 as claimed: a line that starts with digits, a blank and a name, and in
\* which the set/number pattern occurs nowhere, yields an entry without
\* set_code and collector_number whose card_name is the whole remainder of
\* the (pre-processed) line after the quantity, trimmed.
C6_PlainLine_AsClaimed ==
    [][LineStep =>
         LET l == lines[idx + 1]
         IN  HasQuantityAndName(l) /\ Occurrences(l) = {} =>
               parsed_cards' =
                 Append(parsed_cards,
                        [quantity |-> int(Take(l, Run(l, Digits))),
                         card_name |-> Strip(Drop(PreProcess(l), Run(l, Digits))),
                         set_code |-> None,
                         collector_number |-> None])]_vars

\* C6, amended: such a line yields an entry without set_code and
\* collector_number whose card_name is the NFC composition of the whole
\* remainder of the (pre-processed) line after the quantity, trimmed.
C6_PlainLine ==
    [][LineStep =>
         LET l == lines[idx + 1]
         IN  HasQuantityAndName(l) /\ Occurrences(l) = {} =>
               parsed_cards' =
                 Append(parsed_cards,
                        [quantity |-> int(Take(l, Run(l, Digits))),
                         card_name |->
                            NFC(Strip(Drop(PreProcess(l), Run(l, Digits)))),
                         set_code |-> None,
                         collector_number |-> None])]_vars

\* a line with a parenthesised code of six characters, taken into the name
C6_Witness ==
    /\ pc = "loop"
    /\ idx = 1
    /\ HasQuantityAndName(lines[1])
    /\ Occurrences(lines[1]) = {}
    /\ \E i \in 1..Len(lines[1]) : lines[1][i] = "("
    /\ Len(parsed_cards) = 1
    /\ parsed_cards[1].set_code = None
    /\ \E i \in 1..Len(parsed_cards[1].card_name) :
           parsed_cards[1].card_name[i] = "("

\* the outcome of a step on a line whose text before the annotation is B:
\* an entry with the quantity and the name of B when B has them, else none
FromTextBefore(B, a) ==
    IF HasQuantityAndName(B)
    THEN parsed_cards' =
           Append(parsed_cards,
                  [quantity |-> int(Take(B, Run(B, Digits))),
                   card_name |-> NFC(Strip(Drop(B, Run(B, Digits)))),
                   set_code |-> a.set,
                   collector_number |-> a.number])
    ELSE parsed_cards' = parsed_cards

\* C7 as claimed: when the pattern occurs in the pre-processed line, set_code
\* and collector_number are those of its leftmost occurrence, the text the
\* quantity and the name are taken from is exactly the part of the line
\* before that occurrence, and nothing after the occurrence reaches the entry
\* (the entry is a function of that part and of the occurrence alone).
C7_LeftmostOccurrence_AsClaimed ==
    [][LineStep =>
         LET line == PreProcess(lines[idx + 1])
         IN  Occurrences(line) # {} =>
               /\ name_part(line) = Take(line, Leftmost(line))
               /\ FromTextBefore(name_part(line), LeftmostAnnotation(line))]_vars

\* C7, amended: as claimed, but the text the quantity and the name are taken
\* from is the part of the line before the leftmost occurrence, trimmed.
C7_LeftmostOccurrence ==
    [][LineStep =>
         LET line == PreProcess(lines[idx + 1])
         IN  Occurrences(line) # {} =>
               /\ name_part(line) = Strip(Take(line, Leftmost(line)))
               /\ FromTextBefore(Strip(Take(line, Leftmost(line))),
                                 LeftmostAnnotation(line))]_vars

\* a line with two occurrences of the pattern, the second one dropped
C7_Witness ==
    /\ pc = "loop"
    /\ idx = 1
    /\ Cardinality(Occurrences(PreProcess(lines[1]))) = 2
    /\ Len(parsed_cards) = 1
    /\ parsed_cards[1].card_name = <<"a">>
    /\ parsed_cards[1].set_code = <<"A", "B", "C">>

\* the text of the pre-processed line before any set/number annotation
TextBefore(line) ==
    IF Occurrences(line) = {} THEN line ELSE Take(line, Leftmost(line))

\* blank, or a comment, after trimming
Skippable(raw) == Strip(raw) = <<>> \/ StartsWith(Strip(raw), <<"/", "/">>)

\* C8: a line that is neither blank nor a comment and whose text before any
\* set/number annotation does not begin with digits, a blank and a name
\* yields no entry.
C8_NoQuantityNoEntry ==
    [][LineStep =>
         LET raw == lines[idx + 1]
         IN  ~Skippable(raw) /\ ~HasQuantityAndName(TextBefore(PreProcess(raw)))
               => parsed_cards' = parsed_cards]_vars

\* a line with an annotation and no quantity, reported and dropped
C8_Witness ==
    /\ pc = "loop"
    /\ idx = 1
    /\ ~Skippable(lines[1])
    /\ Occurrences(PreProcess(lines[1])) # {}
    /\ ~HasQuantityAndName(TextBefore(PreProcess(lines[1])))
    /\ parsed_cards = <<>>
    /\ Len(stdout) = 1

(***************************************************************************)
(* The document as its lines with their line ends (splitlines(True)), and  *)
(* the documents that differ from it by one blank or comment line.         *)
(***************************************************************************)
RECURSIVE KeepEnds(_)
KeepEnds(s) ==
    IF s = <<>> THEN <<>>
    ELSE LET k == FirstBreak(s)
         IN  IF k = 0 THEN <<s>>
             ELSE LET w == IF s[k] = "CR" /\ k < Len(s) /\ s[k + 1] = "LF"
                           THEN 2 ELSE 1
                  IN  <<Take(s, k - 1 + w)>> \o KeepEnds(Drop(s, k - 1 + w))

RECURSIVE Join(_)
Join(ps) == IF ps = <<>> THEN <<>> ELSE Head(ps) \o Join(Tail(ps))

\* the text of a line without its line end
TextOf(p) == IF FirstBreak(p) = 0 THEN p ELSE Take(p, FirstBreak(p) - 1)

SampleSkippable ==
    { <<>>, <<" ">>, <<"/", "/">>, <<" ", "/", "/", "1", " ", "a">> }

WithoutLine(text) ==
    LET ps == KeepEnds(text)
    IN  {Join(SubSeq(ps, 1, j - 1) \o SubSeq(ps, j + 1, Len(ps))) :
            j \in {i \in 1..Len(ps) : Skippable(TextOf(ps[i]))}}

WithLine(text) ==
    LET ps == KeepEnds(text)
    IN  {Join(SubSeq(ps, 1, j)) \o
           (IF j >= 1 /\ FirstBreak(ps[j]) = 0 THEN <<"LF">> \o l ELSE l \o <<"LF">>)
           \o Join(SubSeq(ps, j + 1, Len(ps))) :
            j \in 0..Len(ps), l \in SampleSkippable}

\* C9: removing from the document, or inserting into it, a line that is blank
\* or starts with "//" after trimming leaves the list returned unchanged.
C9_SkippedLinesFrame ==
    pc = "done" =>
        \A other \in WithoutLine(decklist) \cup WithLine(decklist) :
            parse_decklist(other) = result

\* a document with a comment line before a card line, parsed
C9_Witness ==
    /\ pc = "done"
    /\ Len(lines) = 2
    /\ Skippable(lines[1])
    /\ Len(result) = 1

\* C10: each line the loop takes is skipped (blank or comment: no entry, no
\* diagnostic), accepted (one entry, no diagnostic) or rejected (no entry,
\* one diagnostic that names the line); the entries, the diagnostics and the
\* skipped lines add up to the lines taken.
C10_ThreeOutcomes ==
    [][LineStep =>
         LET raw == lines[idx + 1]
             skipped  == /\ parsed_cards' = parsed_cards
                         /\ stdout' = stdout
             accepted == /\ Len(parsed_cards') = Len(parsed_cards) + 1
                         /\ Take(parsed_cards', Len(parsed_cards)) = parsed_cards
                         /\ stdout' = stdout
             rejected == /\ parsed_cards' = parsed_cards
                         /\ Len(stdout') = Len(stdout) + 1
                         /\ Take(stdout', Len(stdout)) = stdout
                         /\ Tail(stdout'[Len(stdout')]) = PreProcess(raw)
         IN  /\ skipped \/ accepted \/ rejected
             /\ skipped <=> Skippable(raw)
             /\ Len(parsed_cards') + Len(stdout')
                  + Cardinality({j \in 1..idx' : Skippable(lines[j])}) = idx']_vars

\* a comment line skipped and a header line reported
C10_Witness ==
    /\ pc = "loop"
    /\ idx = 2
    /\ Skippable(lines[1])
    /\ parsed_cards = <<>>
    /\ Len(stdout) = 1

\* C11: the pre-processing of a line (strip, typographic quotes, " / " made
\* " // ") applied to a line already pre-processed gives the same line.
C11_PreProcessIdempotent ==
    \A j \in 1..idx : PreProcess(PreProcess(lines[j])) = PreProcess(lines[j])

\* the line as typed, trimmed and with plain quotes: pre-processed up to line 40
Quoted(raw) ==
    Replace(Replace(Strip(raw), <<"RSQUO">>, <<"'">>), <<"LSQUO">>, <<"'">>)

\* a character a face name may end or begin with
FaceChar(c) == c \notin Whitespace /\ c # "/"

\* the positions i of the text B (with a quantity of d digits) where " / "
\* stands between two face names
SeparatorsIn(B, d) ==
    {i \in (d + 3)..(Len(B) - 3) :
        /\ SubSeq(B, i, i + 2) = <<" ", "/", " ">>
        /\ FaceChar(B[i - 1])
        /\ FaceChar(B[i + 3])}

\* C12: a line with a quantity and a name in which " / " stands between two
\* face names is accepted (the replacement does not make it a comment), and
\* its card_name holds " // " at that place: right after the first face
\* name, followed by the second.
C12_SeparatorDoubled ==
    [][LineStep =>
         LET B == TextBefore(Quoted(lines[idx + 1]))
             d == Run(B, Digits)
         IN  HasQuantityAndName(B) =>
               \A i \in SeparatorsIn(B, d) :
                   LET first == NFC(LStrip(Replace(SubSeq(B, d + 1, i - 1),
                                                   <<" ", "/", " ">>,
                                                   <<" ", "/", "/", " ">>)))
                       name  == parsed_cards'[Len(parsed_cards')].card_name
                   IN  /\ Len(parsed_cards') = Len(parsed_cards) + 1
                       /\ stdout' = stdout
                       /\ StartsWith(name, first \o <<" ", "/", "/", " ">>)
                       /\ Len(name) > Len(first) + 4
                       /\ FaceChar(name[Len(first) + 5])]_vars

\* "1 a / a" parsed to the card "a // a"
C12_Witness ==
    /\ pc = "loop"
    /\ idx = 1
    /\ SeparatorsIn(TextBefore(Quoted(lines[1])), 1) # {}
    /\ Len(parsed_cards) = 1
    /\ parsed_cards[1].card_name = <<"a", " ", "/", "/", " ", "a">>

\* the places of the line where "(" code ")" stands after a blank
TypedAt(line, code) ==
    {i \in 1..(Len(line) - Len(code) - 2) :
        /\ line[i] \in Whitespace
        /\ SubSeq(line, i + 1, i + Len(code) + 2) = <<"(">> \o code \o <<")">>}

\* an entry's set_code is None or made of 3 to 5 characters of the class
\* chars, and stands between parentheses in the line, letter for letter
SetCodeOfClass(chars) ==
    LineStep /\ Len(parsed_cards') = Len(parsed_cards) + 1 =>
        LET code == parsed_cards'[Len(parsed_cards')].set_code
        IN  code # None =>
              /\ Len(code) \in 3..5
              /\ \A j \in 1..Len(code) : code[j] \in chars
              /\ TypedAt(lines[idx + 1], code) # {}

\* C15 as claimed: every set_code is alphanumeric, of 3 to 5 characters, as
\* typed between the parentheses.
C15_SetCodeAlphanumeric == [][SetCodeOfClass(Letters \cup Digits)]_vars

\* C15: every set_code is made of 3 to 5 word characters (letters, digits,
\* underscore), kept as typed between the parentheses without a change of
\* case; no shorter or longer parenthesised token is returned.
C15_SetCodeWordChars == [][SetCodeOfClass(WordChars)]_vars

\* "1 a (a_B) 2" parsed: the code keeps its underscore and its two cases
C15_Witness ==
    /\ pc = "loop"
    /\ idx = 1
    /\ Len(parsed_cards) = 1
    /\ parsed_cards[1].set_code = <<"a", "_", "B">>
    /\ TypedAt(lines[1], <<"a", "_", "B">>) # {}

\* no line of the document is accepted
NoLineAccepted == \A j \in 1..Len(lines) : ~Accepts(PreProcess(lines[j]))

\* C13: parse_decklist returns the empty list exactly when no line of the
\* document is accepted; the handler then answers 400 without a lookup, and
\* with one accepted line or more it goes on to the lookups, one per entry,
\* and never answers 400.
C13_EmptyListRejected ==
    /\ pc = "done" => (result = <<>> <=> NoLineAccepted)
    /\ pc = "done" /\ hpc # "parsing" /\ result = <<>> =>
          hpc = "responded" /\ response = 400 /\ lookups = 0
    /\ pc = "done" /\ hpc # "parsing" /\ result # <<>> =>
          /\ hpc \in {"loop", "found", "sorted", "responded"}
          /\ response # 400
          /\ hpc = "responded" => response = 200 /\ lookups = Len(result)

\* the request "x": a line, none accepted, answered 400
C13_Witness ==
    /\ hpc = "responded"
    /\ pc = "done"
    /\ lines # <<>>
    /\ NoLineAccepted
    /\ response = 400
    /\ lookups = 0

\* C14: whatever the interleaving, an invocation that has returned holds the
\* result of parse_decklist on its own document, an invocation in its loop
\* has collected the entries of the lines it has taken and no other, and no
\* step changes the text an invocation was given.
C14_InvocationsIndependent ==
    /\ [](\A c \in Invocations :
            /\ calls[c].pc = "done" =>
                  calls[c].result = parse_decklist(calls[c].decklist)
            /\ calls[c].pc = "loop" =>
                  lists[calls[c].cards] =
                      EntriesOf(Take(calls[c].lines, calls[c].idx)))
    /\ [][\A c \in Invocations : calls'[c].decklist = calls[c].decklist]_allvars

\* two invocations on different documents, each past its first line, each
\* with an entry collected
C14_Witness ==
    \E c, d \in Invocations :
        /\ calls[c].decklist # calls[d].decklist
        /\ calls[c].pc = "loop" /\ calls[c].idx = 1 /\ Len(calls[c].lines) = 2
        /\ calls[d].pc = "loop" /\ calls[d].idx = 1 /\ Len(calls[d].lines) = 2
        /\ lists[calls[c].cards] # <<>>
        /\ lists[calls[d].cards] # <<>>
        /\ lists[calls[c].cards] # lists[calls[d].cards]

\* the step of lines 265-283: the reference printing of an entry is chosen
ReferenceStep == hpc = "sorted" /\ hpc' = "loop"

\* the printings of the list ps that carry the set code and the collector
\* number of the entry e: the set code whatever the case of its letters
MatchesOf(ps, e) ==
    {j \in 1..Len(ps) :
        /\ lower(ps[j].set_code) = lower(e.set_code)
        /\ ps[j].collector_number = e.collector_number}

\* the price of a printing: the foil price when there is one, else the USD
\* price; Null when there is neither
PriceOf(p) == IF p.price_foil # Null THEN p.price_foil ELSE p.price_usd

\* the printing p is a cheapest one of the list ps: by the key the code
\* sorts prices with, or by the USD price, or by the price that goes before
\* (foil, else USD), the last two among the printings that have one
Cheapest(p, ps) ==
    \/ \A k \in 1..Len(ps) : price_value(p) <= price_value(ps[k])
    \/ /\ p.price_usd # Null
       /\ \A k \in 1..Len(ps) :
             ps[k].price_usd # Null => p.price_usd[1] <= ps[k].price_usd[1]
    \/ /\ PriceOf(p) # Null
       /\ \A k \in 1..Len(ps) :
             PriceOf(ps[k]) # Null => PriceOf(p)[1] <= PriceOf(ps[k])[1]

\* C16: when the entry has no set code and number, or no printing matches
\* them, the reference printing is a cheapest one of the card's printings,
\* whatever the sort_order.
C16_FallbackIsCheapest ==
    [][ReferenceStep =>
         LET e  == result[card_i + 1]
             ps == all_printings
             id == results_data'[Len(results_data')].original_card_id
         IN  /\ ps # <<>>
             /\ \/ e.set_code = None
                \/ e.collector_number = None
                \/ MatchesOf(ps, e) = {}
             => \E j \in 1..Len(ps) :
                   ps[j].id = id /\ Cheapest(ps[j], ps)]_allvars

\* C17: when the entry carries a set code and a collector number and the
\* filtered and sorted printings hold a printing with that set code (in any
\* case) and that very number, original_card_id is the id of the first
\* such printing of the list.
C17_FirstMatchIsReference ==
    [][ReferenceStep =>
         LET e  == result[card_i + 1]
             ps == results_data'[Len(results_data')].printings
             id == results_data'[Len(results_data')].original_card_id
         IN  /\ e.set_code # None
             /\ e.collector_number # None
             /\ MatchesOf(ps, e) # {}
             => \E j \in MatchesOf(ps, e) :
                   /\ \A k \in MatchesOf(ps, e) : j <= k
                   /\ id = ps[j].id]_allvars

\* "1 a (ABC) p2": the second printing of the list matches, the first does
\* not, and the second is the reference
C17_Witness ==
    /\ hpc = "loop"
    /\ card_i = 1
    /\ result[1].set_code = <<"A", "B", "C">>
    /\ Len(results_data[1].printings) = 2
    /\ MatchesOf(results_data[1].printings, result[1]) = {2}
    /\ results_data[1].original_card_id = results_data[1].printings[2].id

\* C18: every record handed to sort_printings carries the flag is_paper,
\* 0 or 1.
C18_RecordsCarryIsPaper ==
    hpc = "found" =>
        \A j \in 1..Len(all_printings) :
            /\ "is_paper" \in DOMAIN all_printings[j]
            /\ all_printings[j].is_paper \in {<<0>>, <<1>>}

\* the step of a call of sort_printings
SortStep == hpc = "call" /\ hpc' = "returned"

\* the release date of a printing that carries a date text that is one
DatedCard(p) ==
    "released_at" \in DOMAIN p /\ fromisoformat(p.released_at) # ValueError

\* xs and ys hold the same records, each as many times
IsPermutation(xs, ys) ==
    /\ Len(xs) = Len(ys)
    /\ \E f \in Permutations(1..Len(xs)) :
          \A j \in 1..Len(xs) : ys[j] = xs[f[j]]

\* C19: sort_printings returns a permutation of its input, of the records
\* with a true is_paper when only_paper is set; by price, the dearer before
\* the cheaper for price_down and any unrecognised sort_order with the
\* records without a price last, the cheaper before the dearer for price_up;
\* by release date, the newer before the older for release_down and the
\* older before the newer for release_up.
C19_SortedPermutation ==
    [][SortStep =>
         LET kept == IF only_paper # None
                     THEN SelectSeq(all_printings, IsPaper)
                     ELSE all_printings
             out == all_printings'
             pairs == {jk \in (1..Len(out)) \X (1..Len(out)) : jk[1] < jk[2]}
             priced(p) == PriceOf(p) # Null
         IN  /\ IsPermutation(kept, out)
             /\ \A jk \in pairs :
                  LET a == out[jk[1]]
                      b == out[jk[2]]
                  IN  CASE sort_order = "price_up" ->
                             priced(a) /\ priced(b) =>
                                 PriceOf(a)[1] <= PriceOf(b)[1]
                        [] sort_order = "release_down" ->
                             DatedCard(a) /\ DatedCard(b) =>
                                 fromisoformat(a.released_at)
                                     >= fromisoformat(b.released_at)
                        [] sort_order = "release_up" ->
                             DatedCard(a) /\ DatedCard(b) =>
                                 fromisoformat(a.released_at)
                                     <= fromisoformat(b.released_at)
                        [] OTHER ->
                             /\ priced(a) /\ priced(b) =>
                                   PriceOf(a)[1] >= PriceOf(b)[1]
                             /\ ~priced(a) => ~priced(b)]_allvars

\* an unrecognised sort_order with only_paper set: two paper printings
\* returned, the one with a foil price before the one without a price
C19_Witness ==
    /\ hpc = "returned"
    /\ sort_order = "newest"
    /\ only_paper # None
    /\ Len(all_printings) = 2
    /\ IsPaper(all_printings[1])
    /\ all_printings[1].price_foil # Null
    /\ PriceOf(all_printings[2]) = Null
    /\ all_printings[1].id = Ids[2]

====
